---- MODULE Spec2Model ----
(***************************************************************************)
(* Booking ledger and M-Pesa payment reconciliation of the Fundis booking  *)
(* application: the booking routes (app/routes_main.py), the payment       *)
(* initiation route (app/routes_payment.py) and the gateway client and     *)
(* callback processing (app/services_payment/mpesa_service.py), over the   *)
(* tables of app/models.py.                                                *)
(*                                                                         *)
(* Every request handler runs on a worker with its own SQLAlchemy session. *)
(* A handler is split at its database round trips and its HTTP calls: a    *)
(* SELECT, a COMMIT and a call to the gateway are each one atomic step,    *)
(* and the steps of concurrent handlers interleave freely.  Nothing in the *)
(* source takes a row lock (no with_for_update, no version column), so a   *)
(* COMMIT writes the columns the session changed (SQLAlchemy's unit of     *)
(* work: the attributes whose value differs from the loaded one) over      *)
(* whatever the row holds by then.                                         *)
(***************************************************************************)
EXTENDS Integers, Sequences, FiniteSets, TLC

(* ------------------------------ bounds -------------------------------- *)

\* Workers that handle requests concurrently.
NumProcs == 2
\* Rows the bookings table may hold.
MaxBookings == 1
\* Push requests (HTTP POSTs to the gateway) over a run.
MaxPush == 3
\* Distinct settlement identifiers (MpesaReceiptNumber values) a callback may carry.
MaxReceipt == 1

Procs == 1..NumProcs

(* ------------------------------- data --------------------------------- *)

\* A NULL column of integer type (ids are positive).
NoId == 0

\* models.py BookingStatus
BookingStatus ==
    {"PENDING", "CONFIRMED", "CANCELLED_CLIENT", "CANCELLED_FREELANCER",
     "COMPLETED", "PAYMENT_PENDING", "PAYMENT_FAILED", "DISPUTED"}

\* models.py PaymentStatus
PaymentStatus == {"PENDING", "SUCCESSFUL", "FAILED", "REFUNDED"}

\* The users table: it is not written by any modelled handler.  c1 and c2 are
\* clients, f1 is an active verified freelancer, f2 a freelancer that is not
\* verified (so no booking can name f2).
Users == {"c1", "c2", "f1", "f2"}

\* User.role
UserRole(u) == IF u \in {"c1", "c2"} THEN "CLIENT" ELSE "FREELANCER"

\* User.is_active and User.is_verified_freelancer
VerifiedFreelancer(u) == u = "f1"

\* The users that submit booking requests, and the instants a booking time
\* and the clock are drawn from.
BookingActors == {"c1", "f1"}
Times == {1, 2}

\* Amounts are Floats (models.py 93, 138): they are counted in parts of a
\* shilling, Unit parts to the shilling, so that a price below one shilling
\* has a value.
Unit == 2
KES(n) == n * Unit

\* booking.service.estimated_price as line 41 reads it: <<>> when the booking
\* has no service or the service no price, else <<the price>>.  The services
\* table is not written by any modelled handler.  ListedPrices is the price
\* of the one service of the runs that do not turn on the amount; AnyPrices
\* adds no price, zero, a negative price and a price below one shilling.
NoPrice == <<>>
ListedPrices == {<<KES(150)>>}
AnyPrices == ListedPrices \cup {NoPrice, <<0>>, <<-KES(5)>>, <<1>>}

\* mpesa_service.py 96: int(payment_record.amount), which truncates toward
\* zero.
IntAmount(amount) ==
    IF amount >= 0 THEN amount \div Unit ELSE -((-amount) \div Unit)

\* config DEFAULT_BOOKING_PRICE, with the default of the .get() call
DEFAULT_BOOKING_PRICE == 100

\* payment_confirmation_payload: NULL, json.dumps of a callback body, or
\* json.dumps of the gateway's answer to a push.
NullPayload == [kind |-> "null", mrid |-> NoId, crid |-> NoId, rc |-> "", receipt |-> NoId]

\* payment_initiation_payload: NULL, or json.dumps of the push payload, of
\* which the Amount and the AccountReference are kept.
NullPush == [kind |-> "null", Amount |-> 0, AccountReference |-> NoId]

\* The columns of a payments row that the handlers write.
PaymentColumns ==
    {"booking_id", "amount", "status", "merchant_request_id", "checkout_request_id",
     "mpesa_transaction_id", "payment_initiation_payload", "payment_confirmation_payload"}

\* A Payment object as its constructor leaves it (routes_payment.py 45-50).
Payment(b, amount) ==
    [booking_id |-> b, amount |-> amount, status |-> "PENDING",
     merchant_request_id |-> NoId, checkout_request_id |-> NoId,
     mpesa_transaction_id |-> NoId,
     payment_initiation_payload |-> NullPush,
     payment_confirmation_payload |-> NullPayload]

\* No Payment object loaded in the session.
NoPayment == Payment(NoId, 0)

\* A Booking object as request_booking constructs it at instant now
\* (created_at is the column's default).
Booking(client, freelancer, bt, now) ==
    [client_id |-> client, freelancer_id |-> freelancer, status |-> "PENDING",
     freelancer_notes |-> "", booking_time |-> bt, created_at |-> now]

\* A callback body: Body.stkCallback's CheckoutRequestID and MerchantRequestID
\* (present and the one issued with it, or absent), str(ResultCode) ("None"
\* when the key is absent) and the Value of the MpesaReceiptNumber item of
\* CallbackMetadata (NoId when there is none; the metadata comes with result
\* code 0 only).  NoCallback is a request whose JSON is not an object.
ResultCodes == {"0", "1032", "None"}
NoCallback == [body |-> FALSE, mrid |-> NoId, crid |-> NoId, rc |-> "None", receipt |-> NoId]
CallbackData ==
    {NoCallback} \cup
    {d \in [body : {TRUE}, mrid : 0..MaxPush, crid : 0..MaxPush, rc : ResultCodes,
            receipt : 0..MaxReceipt] :
        /\ d.mrid \in {NoId, d.crid}
        /\ d.rc # "0" => d.receipt = NoId}

\* The callbacks the gateway sends: both ids of a push and a result code.
GatewayCallbacks ==
    {d \in CallbackData : d.body /\ d.mrid # NoId /\ d.crid # NoId /\ d.rc # "None"}

(* ------------------------------- state -------------------------------- *)

VARIABLES
    bookings,       \* the bookings table: row id -> Booking
    payments,       \* the payments table: row id -> Payment
    proc,           \* each worker: its handler, position and session
    gateway,        \* the gateway: the pushes it was sent
    notifications,  \* calls made to the notification sink
    lastCallback,   \* the row the latest write applied a callback to, and how
                    \* often in a row it applied a callback with those ids
                    \* and that result code
    response,       \* what the latest step answered its caller, when it ended
                    \* a request and responses are recorded
    retired         \* history: the checkout ids that Payment rows have held and
                    \* hold no more, when the history is kept

vars == <<bookings, payments, proc, gateway, notifications, lastCallback, response,
          retired>>

\* No request ended in the latest step.
NoResponse == [op |-> "none", out |-> ""]

\* Responses are not recorded.
Unrecorded == [op |-> "unrecorded", out |-> ""]

\* models.py 142: the checkout ids that the rows of a Payment table hold.
CheckoutIds(tbl) == {tbl[i].checkout_request_id : i \in 1..Len(tbl)} \ {NoId}

\* Where responses are recorded, so are the checkout ids that the step takes
\* off the rows.
Retire ==
    retired' = IF response = Unrecorded THEN retired
               ELSE retired \cup (CheckoutIds(payments) \ CheckoutIds(payments'))

\* The step ends the request of handler op with outcome out.
Respond(op, out) ==
    /\ response' = IF response = Unrecorded THEN Unrecorded ELSE [op |-> op, out |-> out]
    /\ Retire

\* What a worker keeps of a payment initiation that found no Payment: the
\* booking and how the initiation ended.  Any other request leaves NoLast.
NoLast == [b |-> NoId, out |-> ""]

\* A worker with no request.
Idle(last) ==
    [pc |-> "idle", op |-> "none", b |-> NoId, seen |-> "", pay |-> NoCallback,
     pk |-> NoId, obj |-> NoPayment, dirty |-> {}, target |-> "", token |-> FALSE,
     last |-> last]

\* The tables are empty and no worker has a request.
\* n: the POSTs sent.  open: the pushes, with their booking, that the gateway
\* took on and for which no callback has been applied.  first: per booking,
\* the POSTs sent by initiations that had found no Payment.
Start ==
    /\ bookings = <<>>
    /\ payments = <<>>
    /\ proc = [p \in Procs |-> Idle(NoLast)]
    /\ gateway = [n |-> 0, open |-> {}, first |-> [b \in 1..MaxBookings |-> 0]]
    /\ notifications = 0
    /\ lastCallback = [pk |-> NoId, n |-> 0]

Init == Start /\ response = Unrecorded /\ retired = {}

\* Requests are dispatched to the lowest-numbered free worker.
Free(p) ==
    /\ proc[p].pc = "idle"
    /\ \A q \in Procs : q < p => proc[q].pc # "idle"

\* The worker ends its request.
Finish(p) == proc' = [proc EXCEPT ![p] = Idle(NoLast)]

\* The worker goes on to its next step; its caller has no answer yet.
Goto(p, rec) ==
    /\ proc' = [proc EXCEPT ![p] = rec]
    /\ response' = IF response = Unrecorded THEN Unrecorded ELSE NoResponse
    /\ Retire

\* A write that applies no callback ends a run of identical callbacks.
OtherWrite == lastCallback' = [pk |-> NoId, n |-> 0]

(* -------------------------- booking ledger ---------------------------- *)

\* NotInFuture refusing only a booking time before the clock.
NotInFuturePastOnly(bt, now) == bt < now

\* routes_main.py 257: the booking time is not later than the clock.
NotInFuture(bt, now) == bt <= now

\* routes_main.py request_booking: the role gate, the freelancer lookup, the
\* future-time check and the INSERT, which is the handler's one commit.
request_booking(p, actor, freelancer, bt, now) ==
    /\ Free(p)
    /\ Finish(p)
    /\ UNCHANGED <<payments, gateway, notifications>>
    /\ IF \/ UserRole(actor) # "CLIENT" \/ ~VerifiedFreelancer(freelancer)
          \/ NotInFuture(bt, now)
       THEN /\ UNCHANGED <<bookings, lastCallback>>
            /\ Respond("request_booking",
                       IF UserRole(actor) # "CLIENT" THEN "Forbidden"
                       ELSE IF ~VerifiedFreelancer(freelancer) THEN "FreelancerUnavailable"
                       ELSE "NotInFuture")
       ELSE /\ Len(bookings) < MaxBookings
            /\ bookings' = Append(bookings, Booking(actor, freelancer, bt, now))
            /\ OtherWrite
            /\ Respond("request_booking", "Created")

\* The four transition routes differ in the role and party they admit, the
\* statuses they start from, the status they write and the note they leave.
TransitionKinds == {"confirm_booking", "reject_booking", "cancel_booking_client",
                    "mark_booking_completed"}

RequiredRole(kind) == IF kind = "cancel_booking_client" THEN "CLIENT" ELSE "FREELANCER"

Party(kind, row) == IF kind = "cancel_booking_client" THEN row.client_id ELSE row.freelancer_id

\* AllowedFrom without the status check of mark_booking_completed
\* (routes_main.py 374-376).
AllowedFromNoCompletedCheck(kind) ==
    CASE kind = "confirm_booking" -> {"PENDING"}
      [] kind = "reject_booking" -> {"PENDING"}
      [] kind = "cancel_booking_client" -> {"PENDING", "CONFIRMED"}
      [] kind = "mark_booking_completed" -> BookingStatus

AllowedFrom(kind) ==
    CASE kind = "confirm_booking" -> {"PENDING"}
      [] kind = "reject_booking" -> {"PENDING"}
      [] kind = "cancel_booking_client" -> {"PENDING", "CONFIRMED"}
      [] kind = "mark_booking_completed" -> {"CONFIRMED"}

\* Target with the alternative that the comment of routes_main.py 379 names:
\* a completed booking awaits its payment.
TargetPaymentPending(kind) ==
    CASE kind = "confirm_booking" -> "CONFIRMED"
      [] kind = "reject_booking" -> "CANCELLED_FREELANCER"
      [] kind = "cancel_booking_client" -> "CANCELLED_CLIENT"
      [] kind = "mark_booking_completed" -> "PAYMENT_PENDING"

Target(kind) ==
    CASE kind = "confirm_booking" -> "CONFIRMED"
      [] kind = "reject_booking" -> "CANCELLED_FREELANCER"
      [] kind = "cancel_booking_client" -> "CANCELLED_CLIENT"
      [] kind = "mark_booking_completed" -> "COMPLETED"

Note(kind, old) ==
    CASE kind = "confirm_booking" -> "confirmed"
      [] kind = "reject_booking" -> "rejected"
      [] OTHER -> old

\* Admitted without the party check (abort 403) of the transition routes.
AdmittedAnyParty(kind, b, actor) ==
    /\ UserRole(actor) = RequiredRole(kind)
    /\ b \in 1..Len(bookings)
    /\ bookings[b].status \in AllowedFrom(kind)

\* Whether a transition route gets past roles_required, get_or_404, the party
\* check (abort 403) and the status check on the row it loaded.
Admitted(kind, b, actor) ==
    /\ UserRole(actor) = RequiredRole(kind)
    /\ b \in 1..Len(bookings)
    /\ Party(kind, bookings[b]) = actor
    /\ bookings[b].status \in AllowedFrom(kind)

\* How a transition route refuses: 403 from roles_required or the party
\* check, 404 from get_or_404, or the warning of the status check.
Refusal(kind, b, actor) ==
    IF UserRole(actor) # RequiredRole(kind) THEN "Forbidden"
    ELSE IF b \notin 1..Len(bookings) THEN "NotFound"
    ELSE IF Party(kind, bookings[b]) # actor THEN "Forbidden"
    ELSE "InvalidTransition"

\* A transition route up to its try block.
booking_transition_load(p, kind, b, actor) ==
    /\ Free(p)
    /\ UNCHANGED <<bookings, payments, gateway, notifications, lastCallback>>
    /\ IF Admitted(kind, b, actor)
       THEN Goto(p, [Idle(NoLast) EXCEPT !.pc = "bk_commit", !.op = kind, !.b = b,
                                         !.seen = bookings[b].status,
                                         !.target = Target(kind)])
       ELSE Finish(p) /\ Respond(kind, Refusal(kind, b, actor))

\* The try block of a transition route: the status (and note) assignment and
\* db.session.commit(), an UPDATE of the changed columns by primary key; when
\* the commit raises, the session is rolled back.
booking_transition_commit(p, dbok) ==
    /\ proc[p].pc = "bk_commit"
    /\ UNCHANGED <<payments, gateway, notifications>>
    /\ IF dbok
       THEN /\ bookings' = [bookings EXCEPT ![proc[p].b] =
                    [@ EXCEPT !.status = proc[p].target,
                              !.freelancer_notes = Note(proc[p].op, @)]]
            /\ OtherWrite
       ELSE UNCHANGED <<bookings, lastCallback>>
    /\ Finish(p)
    /\ Respond(proc[p].op, IF dbok THEN "Done" ELSE "DbError")

BookingStep(p) ==
    \/ \E actor \in BookingActors, freelancer \in {"f1", "f2"}, bt \in Times, now \in Times :
            request_booking(p, actor, freelancer, bt, now)
    \/ \E kind \in TransitionKinds, b \in 1..MaxBookings, actor \in Users :
            booking_transition_load(p, kind, b, actor)
    \/ \E dbok \in BOOLEAN : booking_transition_commit(p, dbok)

(* ------------------------- payment initiation ------------------------- *)

\* The row id Payment.query.filter_by(booking_id=b).first() returns, NoId for
\* None.
PaymentOf(tbl, b) ==
    LET ids == {i \in 1..Len(tbl) : tbl[i].booking_id = b}
    IN  IF ids = {} THEN NoId ELSE CHOOSE i \in ids : \A j \in ids : i <= j

\* The columns of an object the session has to write: those whose value is
\* not the loaded one.
Dirty(obj, loaded) == {c \in PaymentColumns : obj[c] # loaded[c]}

\* The UPDATE a commit issues for one object, by primary key.
Update(tbl, pk, obj, dirty) ==
    [tbl EXCEPT ![pk] = [c \in DOMAIN @ |-> IF c \in dirty THEN obj[c] ELSE @[c]]]

\* routes_payment.py 41-43: the amount of a new Payment.
AmountToPay(price, default) ==
    LET amount == IF price # NoPrice /\ price[1] # 0 THEN price[1] ELSE default
    IN  IF amount <= 0 THEN KES(1) ELSE amount

\* RetryReset without lines 62-63: the ids of the old attempt stay.
RetryResetKeepsIds(obj) ==
    [obj EXCEPT !.status = "PENDING", !.mpesa_transaction_id = NoId,
                !.payment_confirmation_payload = NullPayload]

\* RetryReset taking the amount anew, from the configured default.
RetryResetRepriced(obj) ==
    [obj EXCEPT !.status = "PENDING", !.mpesa_transaction_id = NoId,
                !.merchant_request_id = NoId, !.checkout_request_id = NoId,
                !.payment_confirmation_payload = NullPayload,
                !.amount = KES(DEFAULT_BOOKING_PRICE)]

\* routes_payment.py 59-64: a FAILED Payment made ready for another attempt.
RetryReset(obj) ==
    [obj EXCEPT !.status = "PENDING", !.mpesa_transaction_id = NoId,
                !.merchant_request_id = NoId, !.checkout_request_id = NoId,
                !.payment_confirmation_payload = NullPayload]

\* The ids the gateway answers the n-th push with.
MerchantRequestID(n) == n
CheckoutRequestID(n) == n

\* mpesa_service.py 91-103: the push payload.
StkPayload(obj) ==
    [kind |-> "push", Amount |-> IntAmount(obj.amount),
     AccountReference |-> obj.booking_id]

\* PushAccepted taking the gateway's acceptance of the push for the payment.
PushAcceptedAsPaid(obj, n) ==
    [obj EXCEPT !.merchant_request_id = MerchantRequestID(n),
                !.checkout_request_id = CheckoutRequestID(n),
                !.payment_initiation_payload = StkPayload(obj),
                !.status = "SUCCESSFUL"]

\* mpesa_service.py 125-127: the Payment after an accepted push.
PushAccepted(obj, n) ==
    [obj EXCEPT !.merchant_request_id = MerchantRequestID(n),
                !.checkout_request_id = CheckoutRequestID(n),
                !.payment_initiation_payload = StkPayload(obj)]

\* The gateway's answer with a ResponseCode other than "0".
RejectedResponse == [kind |-> "response", mrid |-> NoId, crid |-> NoId, rc |-> "1", receipt |-> NoId]

\* PushRejected leaving the status as it is.
PushRejectedStaysPending(obj) ==
    [obj EXCEPT !.payment_initiation_payload = StkPayload(obj),
                !.payment_confirmation_payload = RejectedResponse]

\* mpesa_service.py 132-134: the Payment after a rejected push.
PushRejected(obj) ==
    [obj EXCEPT !.status = "FAILED", !.payment_initiation_payload = StkPayload(obj),
                !.payment_confirmation_payload = RejectedResponse]

\* The pushes for a booking that the gateway took on and that no applied
\* callback has resolved.
Outstanding(b) == {x \in gateway.open : x[2] = b}

\* Payment initiations under way.
Initiating == {q \in Procs : proc[q].op = "initiate_booking_payment"}

\* The worker ends a payment initiation.
FinishPayment(p, out) ==
    /\ proc' = [proc EXCEPT ![p] =
            Idle(IF proc[p].seen = "none" THEN [b |-> proc[p].b, out |-> out] ELSE NoLast)]
    /\ Respond("initiate_booking_payment", out)

\* Payable without the status check of lines 17-19.
PayableAnyStatus(b, actor) ==
    /\ UserRole(actor) = "CLIENT"
    /\ b \in 1..Len(bookings)
    /\ bookings[b].client_id = actor

\* routes_payment.py 13-19: the caller is a client, the booking is theirs and
\* it is CONFIRMED.
Payable(b, actor) ==
    /\ UserRole(actor) = "CLIENT"
    /\ b \in 1..Len(bookings)
    /\ bookings[b].client_id = actor
    /\ bookings[b].status = "CONFIRMED"

\* PaidOrPending without the PENDING branch of lines 27-32.
PaidOnly(status) == status = "SUCCESSFUL"

\* routes_payment.py 23-32: the statuses of an existing Payment that end the
\* request.
PaidOrPending(status) == status \in {"SUCCESSFUL", "PENDING"}

\* routes_payment.py 13-35: the role gate, the booking lookup by id and
\* client, the status check, the lookup of the booking's Payment and the
\* branch on its status.  The two SELECTs are one step: no handler writes both
\* tables, so a write that falls between them has the same effect before the
\* first or after the second.  The retry branch's assignments (59-64) happen
\* in memory; its commit is the next step.
initiate_booking_payment_check(p, b, actor) ==
    /\ Free(p)
    /\ gateway.n + Cardinality(Initiating) < MaxPush
    /\ UNCHANGED <<bookings, payments, gateway, notifications, lastCallback>>
    /\ LET pk == PaymentOf(payments, b)
           existing == IF pk = NoId THEN NoPayment ELSE payments[pk]
           start == [Idle(NoLast) EXCEPT !.op = "initiate_booking_payment", !.b = b]
           Return(out) == Finish(p) /\ Respond("initiate_booking_payment", out)
       IN  IF ~Payable(b, actor)
           THEN Return(IF UserRole(actor) # "CLIENT" THEN "Forbidden"
                       ELSE IF b \notin 1..Len(bookings) THEN "NotFound"
                       ELSE IF bookings[b].client_id # actor THEN "NotFound"
                       ELSE "NotConfirmed")
           ELSE IF pk # NoId /\ PaidOrPending(existing.status)
           THEN Return(IF existing.status = "SUCCESSFUL" THEN "AlreadyPaid"
                       ELSE "AlreadyInFlight")
           ELSE IF pk # NoId /\ existing.status = "FAILED"
           THEN Goto(p, [start EXCEPT !.pc = "ip_retry", !.seen = "FAILED", !.pk = pk,
                                      !.obj = RetryReset(existing),
                                      !.dirty = Dirty(RetryReset(existing), existing)])
           ELSE Goto(p, [start EXCEPT !.pc = "ip_create",
                                      !.seen = IF pk = NoId THEN "none" ELSE existing.status])

\* InsertPayment without the unique constraint on booking_id.
InsertPaymentNotUnique(tbl, row, dbok) ==
    IF dbok THEN Append(tbl, row) ELSE tbl

\* InsertPayment leaving the new row in the table when the commit fails.
InsertPaymentKeptOnFailure(tbl, row, dbok) ==
    IF PaymentOf(tbl, row.booking_id) = NoId THEN Append(tbl, row) ELSE tbl

\* The INSERT of a new Payment: it fails when a row with the same booking_id
\* exists (models.py 137, unique=True) or when the database fails.
InsertPayment(tbl, row, dbok) ==
    IF dbok /\ PaymentOf(tbl, row.booking_id) = NoId THEN Append(tbl, row) ELSE tbl

\* initiate_booking_payment_create going on with the row that is there when
\* the INSERT meets one, where the source ends the request (55-58).
initiate_booking_payment_create_or_get(p, dbok, price) ==
    /\ proc[p].pc = "ip_create"
    /\ UNCHANGED <<bookings, gateway, notifications>>
    /\ LET b == proc[p].b
           row == Payment(b, AmountToPay(price, KES(DEFAULT_BOOKING_PRICE)))
           tbl == InsertPayment(payments, row, dbok)
       IN  IF tbl # payments
           THEN /\ payments' = tbl
                /\ OtherWrite
                /\ Goto(p, [proc[p] EXCEPT !.pc = "ip_token", !.pk = Len(tbl)])
           ELSE /\ UNCHANGED <<payments, lastCallback>>
                /\ IF dbok
                   THEN Goto(p, [proc[p] EXCEPT !.pc = "ip_token",
                                                !.pk = PaymentOf(payments, b)])
                   ELSE FinishPayment(p, "DbError")

\* routes_payment.py 37-58: the new Payment and its commit; a failed commit is
\* rolled back and ends the request.
initiate_booking_payment_create(p, dbok, price) ==
    /\ proc[p].pc = "ip_create"
    /\ UNCHANGED <<bookings, gateway, notifications>>
    /\ LET b == proc[p].b
           row == Payment(b, AmountToPay(price, KES(DEFAULT_BOOKING_PRICE)))
           tbl == InsertPayment(payments, row, dbok)
       IN  IF tbl # payments
           THEN /\ payments' = tbl
                /\ OtherWrite
                /\ Goto(p, [proc[p] EXCEPT !.pc = "ip_token", !.pk = Len(tbl)])
           ELSE /\ UNCHANGED <<payments, lastCallback>>
                /\ FinishPayment(p, IF dbok THEN "Duplicate" ELSE "DbError")

\* routes_payment.py 65: the commit of the retry branch.
initiate_booking_payment_retry(p) ==
    /\ proc[p].pc = "ip_retry"
    /\ payments' = Update(payments, proc[p].pk, proc[p].obj, proc[p].dirty)
    /\ OtherWrite
    /\ Goto(p, [proc[p] EXCEPT !.pc = "ip_token", !.obj = NoPayment, !.dirty = {}])
    /\ UNCHANGED <<bookings, gateway, notifications>>

\* The gateway after the POST of worker p: it takes the push on when it
\* answers "0" ("accepted") and when its answer is lost on the way ("lost").
Posted(p, result) ==
    LET b == proc[p].b
    IN  [n |-> gateway.n + 1,
         open |-> IF result \in {"accepted", "lost"}
                  THEN gateway.open \cup {<<gateway.n + 1, b>>}
                  ELSE gateway.open,
         first |-> IF proc[p].seen = "none"
                   THEN [gateway.first EXCEPT ![b] = @ + 1]
                   ELSE gateway.first]

\* ResponseCode taking an answer that never came for a refusal.
ResponseCodeErrorAsRefusal(result) ==
    IF result = "accepted" THEN "0" ELSE "1"

\* mpesa_service.py 111-120: the ResponseCode of the gateway's answer; there
\* is none when raise_for_status or the request itself raised (138-144).
ResponseCode(result) ==
    CASE result = "accepted" -> "0"
      [] result = "rejected" -> "1"
      [] OTHER -> "none"

\* get_mpesa_access_token without the check of lines 51-52: the call goes on
\* to the POST whether or not it got a token.
get_mpesa_access_token_unchecked(p, token) ==
    /\ proc[p].pc = "ip_token"
    /\ UNCHANGED <<bookings, payments, notifications, lastCallback, gateway>>
    /\ Goto(p, [proc[p] EXCEPT !.pc = "ip_push", !.token = token])

\* mpesa_service.py 11-41, 50-52: the token fetch of this call, one GET per
\* call with nothing kept between calls; None on any failure or with no
\* gateway settings, and then initiate_stk_push returns False.
get_mpesa_access_token(p, token) ==
    /\ proc[p].pc = "ip_token"
    /\ UNCHANGED <<bookings, payments, notifications, lastCallback, gateway>>
    /\ IF token
       THEN Goto(p, [proc[p] EXCEPT !.pc = "ip_push", !.token = TRUE])
       ELSE FinishPayment(p, "NoToken")

\* mpesa_service.py 82-144 up to the commits: the phone normalisation, the
\* payload, for which the Payment, expired by the commit, is loaded again
\* (line 96), the one POST with this call's token and the gateway's answer:
\* ResponseCode "0" with the two ids, another ResponseCode, or no usable
\* answer (an HTTP error status, a timeout, a connection error), in which case
\* the gateway may ("lost") or may not ("error") have taken the request on.
\* The reload and the POST are one step: the POST touches no table, so a write
\* between them has the same effect after the POST.
initiate_stk_push(p, phone, result) ==
    /\ proc[p].pc = "ip_push"
    /\ UNCHANGED <<bookings, payments, notifications, lastCallback>>
    /\ LET n == gateway.n + 1
           obj == payments[proc[p].pk]
       IN  IF ~phone
           THEN FinishPayment(p, "BadPhone") /\ UNCHANGED gateway
           ELSE /\ gateway' = Posted(p, result)
                /\ CASE ResponseCode(result) = "0" ->
                            Goto(p, [proc[p] EXCEPT !.pc = "ip_accepted",
                                                    !.obj = PushAccepted(obj, n),
                                                    !.dirty = Dirty(PushAccepted(obj, n), obj)])
                     [] ResponseCode(result) = "none" -> FinishPayment(p, "PushError")
                     [] OTHER ->
                            Goto(p, [proc[p] EXCEPT !.pc = "ip_rejected",
                                                    !.obj = PushRejected(obj),
                                                    !.dirty = Dirty(PushRejected(obj), obj)])

\* mpesa_service.py 128-129: the commit of the ids; the push is initiated.
initiate_stk_push_accepted(p) ==
    /\ proc[p].pc = "ip_accepted"
    /\ payments' = Update(payments, proc[p].pk, proc[p].obj, proc[p].dirty)
    /\ OtherWrite
    /\ FinishPayment(p, "Initiated")
    /\ UNCHANGED <<bookings, gateway, notifications>>

\* initiate_stk_push_rejected going back for another attempt, in the same
\* call, after a refused push.
initiate_stk_push_rejected_again(p) ==
    /\ proc[p].pc = "ip_rejected"
    /\ payments' = Update(payments, proc[p].pk, proc[p].obj, proc[p].dirty)
    /\ OtherWrite
    /\ Goto(p, [proc[p] EXCEPT !.pc = "ip_token", !.obj = NoPayment, !.dirty = {}])
    /\ UNCHANGED <<bookings, gateway, notifications>>

\* mpesa_service.py 135-136: the commit of FAILED and the error response.
initiate_stk_push_rejected(p) ==
    /\ proc[p].pc = "ip_rejected"
    /\ payments' = Update(payments, proc[p].pk, proc[p].obj, proc[p].dirty)
    /\ OtherWrite
    /\ FinishPayment(p, "Rejected")
    /\ UNCHANGED <<bookings, gateway, notifications>>

PaymentStep(p, prices) ==
    \/ \E b \in 1..MaxBookings, actor \in Users : initiate_booking_payment_check(p, b, actor)
    \/ \E dbok \in BOOLEAN, price \in prices : initiate_booking_payment_create(p, dbok, price)
    \/ initiate_booking_payment_retry(p)
    \/ \E token \in BOOLEAN : get_mpesa_access_token(p, token)
    \/ \E phone \in BOOLEAN, result \in {"accepted", "rejected", "error", "lost"} :
            initiate_stk_push(p, phone, result)
    \/ initiate_stk_push_accepted(p)
    \/ initiate_stk_push_rejected(p)

(* ------------------------------ callbacks ----------------------------- *)

\* Matches taking a PENDING row without ids for the row of any callback.
MatchesOrAwaitsIds(tbl, data) ==
    {i \in 1..Len(tbl) : \/ /\ tbl[i].checkout_request_id = data.crid
                            /\ tbl[i].merchant_request_id = data.mrid
                         \/ /\ tbl[i].status = "PENDING"
                            /\ tbl[i].checkout_request_id = NoId}

\* mpesa_service.py 161: the rows the lookup by both ids matches (a None id
\* compares with IS NULL).
Matches(tbl, data) ==
    {i \in 1..Len(tbl) : /\ tbl[i].checkout_request_id = data.crid
                         /\ tbl[i].merchant_request_id = data.mrid}

\* json.dumps(callback_data)
CallbackPayload(data) ==
    [kind |-> "callback", mrid |-> data.mrid, crid |-> data.crid, rc |-> data.rc,
     receipt |-> data.receipt]

\* ApplyCallback without the loop over the CallbackMetadata items (173-176).
ApplyCallbackNoReceipt(obj, data) ==
    [obj EXCEPT !.payment_confirmation_payload = CallbackPayload(data),
                !.status = IF data.rc = "0" THEN "SUCCESSFUL" ELSE "FAILED"]

\* ApplyCallback taking a success callback for a Payment that is SUCCESSFUL
\* already for a reversal.
ApplyCallbackReversesPaid(obj, data) ==
    IF data.rc = "0"
    THEN [obj EXCEPT !.payment_confirmation_payload = CallbackPayload(data),
                     !.status = IF @ = "SUCCESSFUL" THEN "REFUNDED" ELSE "SUCCESSFUL",
                     !.mpesa_transaction_id = IF data.receipt # NoId THEN data.receipt ELSE @]
    ELSE [obj EXCEPT !.payment_confirmation_payload = CallbackPayload(data),
                     !.status = "FAILED"]

\* ApplyCallback refusing a success that names no receipt number: the payload
\* is stored and the Payment marked FAILED.
ApplyCallbackNeedsReceipt(obj, data) ==
    IF data.rc = "0" /\ data.receipt # NoId
    THEN [obj EXCEPT !.payment_confirmation_payload = CallbackPayload(data),
                     !.status = "SUCCESSFUL",
                     !.mpesa_transaction_id = data.receipt]
    ELSE [obj EXCEPT !.payment_confirmation_payload = CallbackPayload(data),
                     !.status = "FAILED"]

\* mpesa_service.py 168-190: the matched Payment after the callback: the raw
\* payload, and SUCCESSFUL with the receipt number (when the metadata names
\* one) for result code "0", FAILED for any other.
ApplyCallback(obj, data) ==
    IF data.rc = "0"
    THEN [obj EXCEPT !.payment_confirmation_payload = CallbackPayload(data),
                     !.status = "SUCCESSFUL",
                     !.mpesa_transaction_id = IF data.receipt # NoId THEN data.receipt ELSE @]
    ELSE [obj EXCEPT !.payment_confirmation_payload = CallbackPayload(data),
                     !.status = "FAILED"]

\* Acknowledgment answering "Accepted" whatever process_mpesa_callback returned.
AcknowledgmentAlwaysAccepted(success) == "Accepted"

\* routes_payment.py 92-103: the ResultDesc of the acknowledgment the callback
\* route answers with (ResultCode 0 "Accepted", ResultCode 1 "Rejected", both
\* with HTTP status 200), from what process_mpesa_callback returned.
Acknowledgment(success) == IF success THEN "Accepted" ELSE "Rejected"

\* mpesa_service.py 154-190: the extraction, the lookup and the assignments to
\* the matched Payment; a body that is no object raises and is rolled back.
process_mpesa_callback_lookup(p, data) ==
    /\ Free(p)
    /\ UNCHANGED <<bookings, payments, gateway, notifications, lastCallback>>
    /\ IF ~data.body \/ Matches(payments, data) = {}
       THEN Finish(p) /\ Respond("mpesa_callback", Acknowledgment(FALSE))
       ELSE \E pk \in Matches(payments, data) :
                Goto(p, [Idle(NoLast) EXCEPT !.pc = "cb_commit",
                                             !.op = "process_mpesa_callback",
                                             !.b = payments[pk].booking_id,
                                             !.pay = data, !.pk = pk,
                                             !.obj = ApplyCallback(payments[pk], data),
                                             !.dirty = Dirty(ApplyCallback(payments[pk], data),
                                                             payments[pk])])

\* Whether a stored callback payload carries the ids and the result code of
\* this callback.
SameCallback(payload, data) ==
    /\ payload.kind = "callback"
    /\ payload.mrid = data.mrid /\ payload.crid = data.crid /\ payload.rc = data.rc

\* models.py 140: mpesa_transaction_id is unique.
ReceiptTaken(tbl, pk, obj, dirty) ==
    /\ "mpesa_transaction_id" \in dirty
    /\ obj.mpesa_transaction_id # NoId
    /\ \E i \in 1..Len(tbl) : i # pk /\ tbl[i].mpesa_transaction_id = obj.mpesa_transaction_id

\* The gateway once the callback with these ids has been applied.
Resolved(data) ==
    [gateway EXCEPT !.open = {x \in @ : ~(data.mrid = x[1] /\ data.crid = x[1])}]

\* process_mpesa_callback_commit with the booking update that lines 180-183
\* leave commented out: an applied success also moves the booking on.
process_mpesa_callback_commit_with_booking(p, dbok) ==
    /\ proc[p].pc = "cb_commit"
    /\ Finish(p)
    /\ UNCHANGED notifications
    /\ IF dbok /\ ~ReceiptTaken(payments, proc[p].pk, proc[p].obj, proc[p].dirty)
       THEN /\ payments' = Update(payments, proc[p].pk, proc[p].obj, proc[p].dirty)
            /\ bookings' = IF proc[p].pay.rc = "0"
                           THEN [bookings EXCEPT ![proc[p].b].status = "COMPLETED"]
                           ELSE bookings
            /\ gateway' = Resolved(proc[p].pay)
            /\ lastCallback' = [pk |-> proc[p].pk, n |-> 1]
       ELSE UNCHANGED <<bookings, payments, gateway, lastCallback>>
    /\ Respond("mpesa_callback",
               Acknowledgment(dbok /\ ~ReceiptTaken(payments, proc[p].pk, proc[p].obj,
                                                    proc[p].dirty)))

\* mpesa_service.py 192-199: the commit; when it raises, the session is
\* rolled back and the callback is not applied.
process_mpesa_callback_commit(p, dbok) ==
    /\ proc[p].pc = "cb_commit"
    /\ Finish(p)
    /\ UNCHANGED <<bookings, notifications>>
    /\ IF dbok /\ ~ReceiptTaken(payments, proc[p].pk, proc[p].obj, proc[p].dirty)
       THEN /\ payments' = Update(payments, proc[p].pk, proc[p].obj, proc[p].dirty)
            /\ gateway' = Resolved(proc[p].pay)
            /\ lastCallback' =
                   IF /\ lastCallback.pk = proc[p].pk
                      /\ SameCallback(payments[proc[p].pk].payment_confirmation_payload,
                                      proc[p].pay)
                   THEN [lastCallback EXCEPT !.n = 2]
                   ELSE [pk |-> proc[p].pk, n |-> 1]
       ELSE UNCHANGED <<payments, gateway, lastCallback>>
    /\ Respond("mpesa_callback",
               Acknowledgment(dbok /\ ~ReceiptTaken(payments, proc[p].pk, proc[p].obj,
                                                    proc[p].dirty)))

CallbackStep(p, callbacks) ==
    \/ \E data \in callbacks : process_mpesa_callback_lookup(p, data)
    \/ \E dbok \in BOOLEAN : process_mpesa_callback_commit(p, dbok)

(* ---------------------------- specifications -------------------------- *)

\* Handlers run concurrently on all workers; the callbacks are the gateway's.
Next ==
    \E p \in Procs :
        BookingStep(p) \/ PaymentStep(p, ListedPrices) \/ CallbackStep(p, GatewayCallbacks)

Spec == Init /\ [][Next]_vars

\* One worker: every handler runs to its end before the next starts.  The
\* callback endpoint is public: any body arrives.  Responses are recorded,
\* and so are the checkout ids that leave a row.
NextSeq ==
    BookingStep(1) \/ PaymentStep(1, ListedPrices) \/ CallbackStep(1, CallbackData)

InitSeq == Start /\ response = NoResponse /\ retired = {}

SpecSeq == InitSeq /\ [][NextSeq]_vars

\* One worker, the gateway's callbacks, and any price on the booking's
\* service.
NextAmount ==
    BookingStep(1) \/ PaymentStep(1, AnyPrices) \/ CallbackStep(1, GatewayCallbacks)

SpecAmount == InitSeq /\ [][NextAmount]_vars

\* Two workers with responses recorded: worker 1 takes every request that
\* finds it free, and worker 2 the callbacks that arrive while worker 1 is at
\* work.  Of the booking routes, bookings are requested and confirmed.
NextRace ==
    \/ \E bt \in Times, now \in Times : request_booking(1, "c1", "f1", bt, now)
    \/ \E b \in 1..MaxBookings, actor \in Users :
            booking_transition_load(1, "confirm_booking", b, actor)
    \/ \E dbok \in BOOLEAN : booking_transition_commit(1, dbok)
    \/ PaymentStep(1, ListedPrices)
    \/ CallbackStep(1, GatewayCallbacks)
    \/ CallbackStep(2, GatewayCallbacks)

SpecRace == InitSeq /\ [][NextRace]_vars

(* ------------------------------- claims ------------------------------- *)

\* C9: with handlers run one after the other, a booking is created PENDING,
\* a booking row changes only in the commit of a transition route, and then
\* along a row of the transition table (so COMPLETED and the two CANCELLED
\* statuses are never left); a route enters its commit only from a status the
\* table allows for it, and an attempt that is refused changes no booking.
C9_BookingTransitions ==
    [][LET TransitionTable ==
               {<<"confirm_booking", "PENDING", "CONFIRMED">>,
                <<"reject_booking", "PENDING", "CANCELLED_FREELANCER">>,
                <<"cancel_booking_client", "PENDING", "CANCELLED_CLIENT">>,
                <<"cancel_booking_client", "CONFIRMED", "CANCELLED_CLIENT">>,
                <<"mark_booking_completed", "CONFIRMED", "COMPLETED">>}
       IN  /\ Len(bookings') >= Len(bookings)
           /\ \A b \in 1..Len(bookings') :
                IF b > Len(bookings)
                THEN bookings'[b].status = "PENDING"
                ELSE bookings'[b] # bookings[b] =>
                        /\ proc[1].pc = "bk_commit" /\ proc[1].b = b
                        /\ <<proc[1].op, bookings[b].status, bookings'[b].status>>
                                \in TransitionTable
           /\ proc'[1].pc = "bk_commit" /\ proc[1].pc # "bk_commit" =>
                /\ bookings' = bookings
                /\ <<proc'[1].op, bookings[proc'[1].b].status, proc'[1].target>>
                        \in TransitionTable]_vars

\* C9 witness: a booking that was confirmed and then cancelled by its client.
C9_Witness ==
    /\ Len(bookings) >= 1
    /\ bookings[1].status = "CANCELLED_CLIENT"
    /\ bookings[1].freelancer_notes = "confirmed"

\* C10: a booking whose status is CANCELLED_CLIENT or CANCELLED_FREELANCER
\* is never afterwards written to CONFIRMED or COMPLETED, however transition
\* attempts on it interleave.
C10_CancelledNotOverwritten ==
    [][\A b \in 1..Len(bookings) :
            bookings[b].status \in {"CANCELLED_CLIENT", "CANCELLED_FREELANCER"} =>
                bookings'[b].status \notin {"CONFIRMED", "COMPLETED"}]_vars

\* C1: of the payment initiations for a booking that found no Payment, at
\* most one sends a push; when two of them have ended and one got as far as
\* its push (it ended with the push initiated, rejected or unanswered),
\* exactly one push was sent and the other initiation sent none.
C1_OnePushForNewPayment ==
    LET Pushed == {"Initiated", "Rejected", "PushError"}
    IN
    \A b \in 1..MaxBookings :
        /\ gateway.first[b] <= 1
        /\ \A p, q \in Procs :
             /\ p # q /\ proc[p].last.b = b /\ proc[q].last.b = b
             /\ proc[p].last.out \in Pushed
             => gateway.first[b] = 1 /\ proc[q].last.out \notin Pushed

\* C1 witness: two initiations that both found no Payment have ended, one
\* with its push initiated and the other refused by the unique constraint.
C1_Witness ==
    \E p, q \in Procs :
        /\ proc[p].last = [b |-> 1, out |-> "Initiated"]
        /\ proc[q].last = [b |-> 1, out |-> "Duplicate"]
        /\ gateway.first[1] = 1

\* C2: two initiations that both read the booking's Payment as FAILED do not
\* both send a push.
C2_OnePushForRetry ==
    \A p, q \in Procs :
        ~ /\ p # q /\ proc[p].b = proc[q].b
          /\ proc[p].seen = "FAILED" /\ proc[q].seen = "FAILED"
          /\ proc[p].pc \in {"ip_accepted", "ip_rejected"}
          /\ proc[q].pc \in {"ip_accepted", "ip_rejected"}

\* C3: for each booking, at most one push that the gateway took on is
\* unresolved.
C3_OneOutstandingPush ==
    \A b \in 1..MaxBookings : Cardinality(Outstanding(b)) <= 1

\* C4: each booking has at most one row in the payments table.
C4_OnePaymentPerBooking ==
    \A b \in 1..MaxBookings :
        Cardinality({i \in 1..Len(payments) : payments[i].booking_id = b}) <= 1

\* C4 witness: an INSERT for a booking that has a Payment was refused.
C4_Witness ==
    /\ \E p \in Procs : proc[p].last = [b |-> 1, out |-> "Duplicate"]
    /\ Len(payments) = 1 /\ payments[1].booking_id = 1

\* C5: a Payment that is SUCCESSFUL stays SUCCESSFUL.
C5_SuccessfulNeverLeft ==
    [][\A i \in 1..Len(payments) :
            payments[i].status = "SUCCESSFUL" => payments'[i].status = "SUCCESSFUL"]_vars

\* C6: a callback applied to a Payment directly after a callback with the
\* same ids and the same result code leaves the Payment (its status, its
\* transaction id, its confirmation payload) as it was and sends no
\* notification.
C6_CallbackIdempotent ==
    [][proc[1].pc = "cb_commit" /\ lastCallback'.n = 2 =>
            /\ payments' = payments
            /\ notifications' = notifications]_vars

\* C7: a Payment has a transaction id exactly when it is SUCCESSFUL.
C7_TransactionIdIffSuccessful ==
    \A i \in 1..Len(payments) :
        payments[i].mpesa_transaction_id # NoId <=> payments[i].status = "SUCCESSFUL"

C11_UnknownCorrelation ==
    [][/\ proc[1].pc = "idle" /\ response'.op = "mpesa_callback" =>
            /\ payments' = payments
            /\ response'.out = "Rejected"
       /\ proc[1].pc = "idle" /\ proc'[1].pc = "cb_commit" =>
            /\ payments' = payments
            /\ proc'[1].pk \in Matches(payments, proc'[1].pay)]_vars

\* C11 witness: with a Payment in the table, a callback was acknowledged
\* "Rejected".
C11_Witness ==
    /\ response = [op |-> "mpesa_callback", out |-> "Rejected"]
    /\ Len(payments) >= 1
    /\ payments[1].checkout_request_id # NoId

\* C12: an initiation whose push the gateway rejects leaves its Payment
\* FAILED with both ids null; and whenever a CONFIRMED booking has a FAILED
\* Payment, a payment request of its client is taken on for a retry (as long
\* as the bound on pushes allows another).
C12_RejectedThenRetry ==
    /\ [][response' = [op |-> "initiate_booking_payment", out |-> "Rejected"] =>
            /\ proc[1].pc = "ip_rejected"
            /\ payments'[proc[1].pk].status = "FAILED"
            /\ payments'[proc[1].pk].merchant_request_id = NoId
            /\ payments'[proc[1].pk].checkout_request_id = NoId]_vars
    /\ [](\A b \in 1..Len(bookings) :
            /\ proc[1].pc = "idle" /\ gateway.n < MaxPush
            /\ bookings[b].status = "CONFIRMED"
            /\ PaymentOf(payments, b) # NoId
            /\ payments[PaymentOf(payments, b)].status = "FAILED"
            => ENABLED (/\ initiate_booking_payment_check(1, b, bookings[b].client_id)
                        /\ proc'[1].pc = "ip_retry"))

\* C12 witness: a retry is under way for a Payment that holds the gateway's
\* rejection of its push.
C12_Witness ==
    /\ proc[1].pc = "ip_retry"
    /\ payments[proc[1].pk].status = "FAILED"
    /\ payments[proc[1].pk].payment_confirmation_payload = RejectedResponse
    /\ payments[proc[1].pk].checkout_request_id = NoId

C14_StalePairNeverMatches ==
    /\ [][proc[1].pc = "ip_retry" =>
            /\ proc'[1].pc = "ip_token"
            /\ payments'[proc[1].pk].status = "PENDING"
            /\ payments'[proc[1].pk].merchant_request_id = NoId
            /\ payments'[proc[1].pk].checkout_request_id = NoId
            /\ payments'[proc[1].pk].mpesa_transaction_id = NoId
            /\ payments'[proc[1].pk].payment_confirmation_payload = NullPayload]_vars
    /\ [](\A i \in 1..Len(payments) : payments[i].checkout_request_id \notin retired)
    /\ [][proc[1].pc = "idle" /\ proc'[1].pc = "cb_commit" =>
            proc'[1].pay.crid \notin retired]_vars

\* C14 witness: a Payment holds the ids of a new attempt after a retry
\* replaced an earlier pair.
C14_Witness ==
    /\ retired # {}
    /\ Len(payments) >= 1
    /\ payments[1].status = "PENDING"
    /\ payments[1].checkout_request_id # NoId

\* C15: whenever a CONFIRMED booking has a PENDING Payment with no ids and no
\* request is under way, a payment request of the booking's client is taken on
\* for another push (as long as the bound on pushes allows another).
C15_PendingWithoutIdsRetried ==
    \A b \in 1..Len(bookings) :
        /\ proc[1].pc = "idle" /\ gateway.n < MaxPush
        /\ bookings[b].status = "CONFIRMED"
        /\ PaymentOf(payments, b) # NoId
        /\ payments[PaymentOf(payments, b)].status = "PENDING"
        /\ payments[PaymentOf(payments, b)].checkout_request_id = NoId
        /\ payments[PaymentOf(payments, b)].merchant_request_id = NoId
        => ENABLED (/\ initiate_booking_payment_check(1, b, bookings[b].client_id)
                    /\ proc'[1].pc # "idle")

\* C16: an initiation that ends with no token or with no answer to its POST
\* changes no Payment row, and leaves its Payment PENDING with both ids null;
\* a push that the gateway took on is either answered "0" or ends that way,
\* never with the write of FAILED.
C16_UnavailableKeepsPending ==
    /\ [][/\ response'.op = "initiate_booking_payment"
          /\ response'.out \in {"NoToken", "PushError"}
          => /\ proc[1].pc \in {"ip_token", "ip_push"}
             /\ payments' = payments
             /\ payments'[proc[1].pk].status = "PENDING"
             /\ payments'[proc[1].pk].merchant_request_id = NoId
             /\ payments'[proc[1].pk].checkout_request_id = NoId]_vars
    /\ [][proc[1].pc = "ip_push" /\ gateway'.open # gateway.open =>
            \/ proc'[1].pc = "ip_accepted"
            \/ /\ proc'[1].pc = "idle"
               /\ response'.out = "PushError"
               /\ payments' = payments]_vars

\* C16 witness: a push that the gateway took on ended with no answer, and its
\* Payment is PENDING with no ids.
C16_Witness ==
    /\ response = [op |-> "initiate_booking_payment", out |-> "PushError"]
    /\ gateway.open # {}
    /\ Len(payments) >= 1
    /\ payments[1].status = "PENDING"
    /\ payments[1].checkout_request_id = NoId

\* C17: a booking request that is not answered "Created" leaves the bookings
\* as they are; one that is adds one row, PENDING, and changes no other; and
\* the booking time of every row is later than the clock was at its creation.
C17_BookingTimeInFuture ==
    /\ [][response'.op = "request_booking" =>
            IF response'.out = "Created"
            THEN /\ Len(bookings') = Len(bookings) + 1
                 /\ SubSeq(bookings', 1, Len(bookings)) = bookings
                 /\ bookings'[Len(bookings')].status = "PENDING"
                 /\ bookings'[Len(bookings')].booking_time >
                        bookings'[Len(bookings')].created_at
            ELSE bookings' = bookings]_vars
    /\ [][Len(bookings') > Len(bookings) =>
            response' = [op |-> "request_booking", out |-> "Created"]]_vars
    /\ [](\A b \in 1..Len(bookings) : bookings[b].booking_time > bookings[b].created_at)

\* C17 witness: a booking request was refused for its time, and no row is
\* there.
C17_Witness ==
    /\ response = [op |-> "request_booking", out |-> "NotInFuture"]
    /\ bookings = <<>>

\* C18: a Payment is created PENDING, and every change of a Payment's status
\* is PENDING to SUCCESSFUL, PENDING to FAILED, or FAILED to PENDING by the
\* retry of a payment request.
C18_PaymentStatusEdges ==
    [][/\ \A i \in 1..Len(payments) :
            /\ i <= Len(payments')
            /\ payments'[i].status # payments[i].status =>
                 /\ <<payments[i].status, payments'[i].status>> \in
                        {<<"PENDING", "SUCCESSFUL">>, <<"PENDING", "FAILED">>,
                         <<"FAILED", "PENDING">>}
                 /\ payments[i].status = "FAILED" =>
                        \E p \in Procs : proc[p].pc = "ip_retry" /\ proc[p].pk = i
       /\ \A i \in (Len(payments) + 1)..Len(payments') :
            payments'[i].status = "PENDING"]_vars

\* C19: a payment request answered "NotConfirmed" changes no Payment row and
\* sends nothing to the gateway; a payment request goes on past its checks,
\* and a push is sent, only for a CONFIRMED booking.
C19_NotConfirmedNoEffect ==
    /\ [][response' = [op |-> "initiate_booking_payment", out |-> "NotConfirmed"] =>
            /\ payments' = payments
            /\ gateway' = gateway
            /\ proc'[1].pc = "idle"]_vars
    /\ [][proc[1].pc = "idle" /\ proc'[1].pc \in {"ip_create", "ip_retry"} =>
            bookings[proc'[1].b].status = "CONFIRMED"]_vars
    /\ [][gateway'.n # gateway.n =>
            /\ proc[1].pc = "ip_push"
            /\ bookings[proc[1].b].status = "CONFIRMED"]_vars

\* C19 witness: a payment request was refused for the booking's status, with
\* a Payment of the booking in the table.
C19_Witness ==
    /\ response = [op |-> "initiate_booking_payment", out |-> "NotConfirmed"]
    /\ Len(payments) >= 1
    /\ bookings[payments[1].booking_id].status # "CONFIRMED"

\* C20: a payment request answered "AlreadyPaid" or "AlreadyInFlight" changes
\* no Payment row and sends nothing to the gateway; a payment request goes on
\* past its checks only when the booking has no Payment or a FAILED one.
C20_PaidOrPendingNoOp ==
    /\ [][/\ response'.op = "initiate_booking_payment"
          /\ response'.out \in {"AlreadyPaid", "AlreadyInFlight"}
          => /\ payments' = payments
             /\ gateway' = gateway
             /\ proc'[1].pc = "idle"]_vars
    /\ [][proc[1].pc = "idle" /\ proc'[1].pc \in {"ip_create", "ip_retry"} =>
            \/ PaymentOf(payments, proc'[1].b) = NoId
            \/ payments[PaymentOf(payments, proc'[1].b)].status = "FAILED"]_vars

\* C20 witness: a payment request found the booking's Payment PENDING with
\* the ids of an accepted push, and was answered "AlreadyInFlight".
C20_Witness ==
    /\ response = [op |-> "initiate_booking_payment", out |-> "AlreadyInFlight"]
    /\ Len(payments) >= 1
    /\ payments[1].status = "PENDING"
    /\ payments[1].checkout_request_id # NoId

\* C21: a callback changes a Payment row only when its body carries both ids
\* and a result code.
C21_MalformedCallbackRejected ==
    [][proc[1].pc = "cb_commit" /\ payments' # payments =>
            /\ proc[1].pay.mrid # NoId
            /\ proc[1].pay.crid # NoId
            /\ proc[1].pay.rc # "None"]_vars

\* C22: a worker sends a push only when the row of its Payment is PENDING
\* with both ids null, and a row gets ids only in the commit that follows an
\* accepted push for it.
C22_ReserveThenPushThenIds ==
    [][/\ \A p \in Procs :
            proc[p].pc = "ip_push" /\ proc'[p] # proc[p] /\ gateway'.n # gateway.n =>
                /\ proc[p].pk \in 1..Len(payments)
                /\ payments[proc[p].pk].status = "PENDING"
                /\ payments[proc[p].pk].merchant_request_id = NoId
                /\ payments[proc[p].pk].checkout_request_id = NoId
       /\ gateway'.n # gateway.n => \E p \in Procs : proc[p].pc = "ip_push" /\ proc'[p] # proc[p]
       /\ \A i \in 1..Len(payments) :
            /\ i <= Len(payments')
            /\ payments'[i].checkout_request_id # payments[i].checkout_request_id
            /\ payments'[i].checkout_request_id # NoId
            => \E p \in Procs : /\ proc[p].pc = "ip_accepted" /\ proc[p].pk = i
                                /\ proc'[p].pc = "idle"]_vars

C25_StaleCallbackAfterReset ==
    [][\A q \in Procs :
            /\ proc[q].pc = "cb_commit"
            /\ proc'[q].pc = "idle"
            /\ payments[proc[q].pk].checkout_request_id # proc[q].pay.crid
            => payments'[proc[q].pk].status = payments[proc[q].pk].status]_vars

\* C26: the Amount of every push that is posted is a whole number of
\* shillings of at least 1, whatever the price of the service.
C26_PushAmountAtLeastOne ==
    [][gateway'.n # gateway.n => StkPayload(payments[proc[1].pk]).Amount >= 1]_vars

\* C27: a worker holds a token only inside a payment call, after that call's
\* own fetch; every push is posted by a worker that holds one; a token is
\* obtained by the fetch step only, which posts nothing; and a fetch that
\* fails ends the call with no push and no row changed.
C27_OwnTokenBeforePush ==
    /\ [](\A p \in Procs :
            proc[p].token => proc[p].pc \in {"ip_push", "ip_accepted", "ip_rejected"})
    /\ [][\A p \in Procs :
            /\ (gateway'.n # gateway.n /\ proc'[p] # proc[p]
                    => proc[p].pc = "ip_push" /\ proc[p].token)
            /\ (~proc[p].token /\ proc'[p].token
                    => proc[p].pc = "ip_token" /\ gateway' = gateway)
            /\ (proc[p].pc = "ip_token" /\ proc'[p] # proc[p] /\ ~proc'[p].token
                    => /\ proc'[p].pc = "idle"
                       /\ gateway' = gateway
                       /\ payments' = payments)]_vars

\* C27 witness: the second push has been posted, by a call that fetched its
\* own token.
C27_Witness ==
    \E p \in Procs :
        /\ proc[p].pc = "ip_accepted"
        /\ proc[p].token
        /\ gateway.n = 2

\* C28: one payment call posts at most one push: a step posts one push at
\* most, the worker that posts is at the POST of its call, and inside a call
\* a worker only moves forward (reservation, token, POST, commit of the
\* answer), so that after its POST it can only end the call.
C28_OnePushPerCall ==
    [][LET InCall == {"ip_create", "ip_retry", "ip_token", "ip_push",
                      "ip_accepted", "ip_rejected"}
           Stage(pc) == CASE pc \in {"ip_create", "ip_retry"} -> 1
                          [] pc = "ip_token" -> 2
                          [] pc = "ip_push" -> 3
                          [] pc \in {"ip_accepted", "ip_rejected"} -> 4
                          [] OTHER -> 0
       IN  /\ gateway'.n \in {gateway.n, gateway.n + 1}
           /\ \A p \in Procs :
                /\ (gateway'.n # gateway.n /\ proc'[p] # proc[p]
                        => /\ proc[p].pc = "ip_push"
                           /\ proc'[p].pc \in {"ip_accepted", "ip_rejected", "idle"})
                /\ (proc[p].pc \in InCall /\ proc'[p] # proc[p]
                        => \/ proc'[p].pc = "idle"
                           \/ /\ proc'[p].pc \in InCall
                              /\ Stage(proc'[p].pc) > Stage(proc[p].pc))]_vars

\* C28 witness: a call has posted its push, the gateway refused it, and the
\* call ended with FAILED on its Payment and that one push.
C28_Witness ==
    /\ response.op = "initiate_booking_payment"
    /\ response.out = "Rejected"
    /\ gateway.n = 1
    /\ Len(payments) = 1
    /\ payments[1].status = "FAILED"

C30_PayloadWithStatus ==
    /\ [](\A i \in 1..Len(payments) :
            payments[i].payment_confirmation_payload.kind = "callback"
                => payments[i].status =
                        IF payments[i].payment_confirmation_payload.rc = "0"
                        THEN "SUCCESSFUL" ELSE "FAILED")
    /\ [][\A p \in Procs :
            proc[p].pc = "cb_commit" /\ proc'[p].pc = "idle"
                => \/ payments' = payments
                   \/ /\ payments'[proc[p].pk].payment_confirmation_payload =
                            CallbackPayload(proc[p].pay)
                      /\ payments'[proc[p].pk].status =
                            IF proc[p].pay.rc = "0" THEN "SUCCESSFUL" ELSE "FAILED"]_vars

\* C31: the acknowledgment of a callback is "Rejected" only when the callback
\* is well formed (an object with both ids and a result code) and its pair
\* matches no Payment; a callback that got as far as the commit on a matched
\* Payment is acknowledged "Accepted".
C31_RejectedOnlyWhenUnmatched ==
    [][/\ proc[1].pc = "cb_commit" /\ proc'[1].pc = "idle" => response'.out = "Accepted"
       /\ \A d \in CallbackData :
            /\ process_mpesa_callback_lookup(1, d)
            /\ response'.out = "Rejected"
            => /\ d.body /\ d.mrid # NoId /\ d.crid # NoId /\ d.rc # "None"
               /\ Matches(payments, d) = {}]_vars

\* C32: a transition route called for an existing booking by a user who is
\* not the party the route is for (the booking's client for the client's
\* cancellation, its freelancer for confirm, reject and mark-completed) is
\* answered "Forbidden" and leaves the bookings table as it is, and no
\* booking's status changes but by the commit of a transition that was let
\* through for that booking.
C32_NonPartyForbidden ==
    /\ [](\A kind \in TransitionKinds, b \in 1..Len(bookings), actor \in Users :
            proc[1].pc = "idle" /\ Party(kind, bookings[b]) # actor
            => /\ ENABLED booking_transition_load(1, kind, b, actor)
               /\ ~ENABLED (/\ booking_transition_load(1, kind, b, actor)
                            /\ ~(/\ response' = [op |-> kind, out |-> "Forbidden"]
                                 /\ proc'[1].pc = "idle"
                                 /\ bookings' = bookings)))
    /\ [][\A b \in 1..Len(bookings) :
            bookings'[b].status # bookings[b].status
                => proc[1].pc = "bk_commit" /\ proc[1].b = b]_vars

\* C32 witness: a confirmation of a PENDING booking was refused as forbidden,
\* and the booking is PENDING still.
C32_Witness ==
    /\ response = [op |-> "confirm_booking", out |-> "Forbidden"]
    /\ Len(bookings) = 1
    /\ bookings[1].status = "PENDING"

C34_FailedCommitRolledBack ==
    /\ [](proc[1].pc = "ip_create" =>
            \A price \in ListedPrices :
                /\ ENABLED initiate_booking_payment_create(1, FALSE, price)
                /\ ~ENABLED (/\ initiate_booking_payment_create(1, FALSE, price)
                             /\ ~(/\ payments' = payments
                                  /\ PaymentOf(payments', proc[1].b) = NoId
                                  /\ gateway' = gateway
                                  /\ proc'[1].pc = "idle"
                                  /\ response'.out = "DbError")))
    /\ [](proc[1].pc = "cb_commit" =>
            /\ ENABLED process_mpesa_callback_commit(1, FALSE)
            /\ ~ENABLED (/\ process_mpesa_callback_commit(1, FALSE)
                         /\ ~(/\ payments' = payments
                              /\ response' = [op |-> "mpesa_callback",
                                              out |-> "Rejected"])))

\* C34 witness: the commit of the first Payment of a CONFIRMED booking has
\* failed; there is no Payment and no push was posted.
C34_Witness ==
    /\ response = [op |-> "initiate_booking_payment", out |-> "DbError"]
    /\ Len(bookings) = 1
    /\ bookings[1].status = "CONFIRMED"
    /\ payments = <<>>
    /\ gateway.n = 0

C36_NoPushAfterConfirmedLeft ==
    [][\A p \in Procs :
            gateway'.n # gateway.n /\ proc[p].pc = "ip_push" /\ proc'[p] # proc[p]
                => bookings[proc[p].b].status = "CONFIRMED"]_vars

\* C37: no booking that is CANCELLED_CLIENT or CANCELLED_FREELANCER has a
\* Payment that is PENDING or SUCCESSFUL.
C37_CancelledHasNoLivePayment ==
    \A i \in 1..Len(payments) :
        bookings[payments[i].booking_id].status \in {"CANCELLED_CLIENT", "CANCELLED_FREELANCER"}
            => payments[i].status \notin {"PENDING", "SUCCESSFUL"}

\* C38: the amount of a Payment row never changes once the row is there, and
\* the push of a retry carries the Amount that the row's earlier push carried.
C38_RetryKeepsAmount ==
    [][/\ \A i \in 1..Len(payments) : payments'[i].amount = payments[i].amount
       /\ /\ gateway'.n # gateway.n
          /\ proc[1].pc = "ip_push"
          /\ proc[1].seen = "FAILED"
          /\ payments[proc[1].pk].payment_initiation_payload.kind = "push"
          => StkPayload(payments[proc[1].pk]).Amount =
                payments[proc[1].pk].payment_initiation_payload.Amount]_vars

\* C38 witness: the retry of a Payment created at the configured default,
\* whose first push the gateway refused, has posted its push with that
\* Amount again.
C38_Witness ==
    /\ proc[1].pc = "ip_accepted"
    /\ proc[1].seen = "FAILED"
    /\ payments[proc[1].pk].amount = KES(DEFAULT_BOOKING_PRICE)
    /\ payments[proc[1].pk].payment_initiation_payload.kind = "push"
    /\ payments[proc[1].pk].payment_initiation_payload.Amount = DEFAULT_BOOKING_PRICE
    /\ proc[1].obj.payment_initiation_payload.Amount = DEFAULT_BOOKING_PRICE

\* C39: no booking is ever PAYMENT_PENDING, PAYMENT_FAILED or DISPUTED and no
\* Payment is ever REFUNDED, in the tables or in what a worker is about to
\* write.
C39_UnusedStatuses ==
    /\ \A b \in 1..Len(bookings) :
            bookings[b].status \in {"PENDING", "CONFIRMED", "CANCELLED_CLIENT",
                                    "CANCELLED_FREELANCER", "COMPLETED"}
    /\ \A i \in 1..Len(payments) :
            payments[i].status \in {"PENDING", "SUCCESSFUL", "FAILED"}
    /\ \A p \in Procs :
            /\ proc[p].target \notin {"PAYMENT_PENDING", "PAYMENT_FAILED", "DISPUTED"}
            /\ proc[p].obj.status # "REFUNDED"

\* C39 witness: every kind of operation has acted: a booking was requested,
\* confirmed and completed, its Payment was pushed, became FAILED (by the
\* gateway's refusal or by a callback), was retried and is PENDING with the
\* ids of the second push.
C39_Witness ==
    /\ Len(bookings) = 1 /\ Len(payments) = 1
    /\ bookings[1].status = "COMPLETED"
    /\ payments[1].status = "PENDING"
    /\ payments[1].checkout_request_id = 2
    /\ gateway.n = 2

====
